---- MODULE Spec2Model ----
(***************************************************************************)
(* Model of config-server-rs as it is written:                             *)
(*                                                                         *)
(*   - src/src/raft/mod.rs: RaftNode {state, current_term, voted_for},     *)
(*     each behind its own tokio RwLock, the election-timer task and the   *)
(*     heartbeat-timer task spawned by start(), and the three getters      *)
(*     (Spec, FairSpec, TaskSpec);                                         *)
(*   - src/config-raft/src/lib.rs and src/config-api/src/grpc.rs:          *)
(*     RaftConfigManager over a RaftNode whose new/propose/get_config/     *)
(*     list_configs bodies are todo!(), and GrpcApi over a ConfigManager   *)
(*     (ApiSpec);                                                          *)
(*   - src/src/audit/mod.rs: Audit::log_event and query_events over        *)
(*     audit.log (AuditSpec), and cleanup_old_logs over a log directory    *)
(*     (CleanupSpec).                                                      *)
(*                                                                         *)
(* A cluster is NumNodes processes, each owning one RaftNode.  The code    *)
(* has no peer transport, no log, no commit index and no apply path, so    *)
(* the model has none either: sent, the vote requests handed to peers, is  *)
(* written by no step.                                                     *)
(***************************************************************************)
EXTENDS Integers, FiniteSets, Sequences, TLC

\* ------------------------------------------------------------------ bounds
\* Number of processes in the cluster (each runs one RaftNode).
NumNodes == 2

Nodes == 1..NumNodes

\* ------------------------------------------------------- program vocabulary
\* enum NodeState
NodeState == {"Follower", "Candidate", "Leader"}

\* Option<String>::None for voted_for
None == 0

\* config.node_id of the process n (a node votes with its own id)
node_id(n) == n

\* config.peers of the process n: the other members of the cluster
Peers(n) == Nodes \ {n}

\* The three RwLocks of a RaftNode, in the order the election timer takes them
LockNames == {"state", "current_term", "voted_for"}

\* enum config_common::Error
Error == {"Database", "Cache", "Config", "Auth", "Authorization", "Validation",
          "NotFound", "AlreadyExists", "Internal", "PrometheusError"}

\* enum RaftCommand (the variant tags)
RaftCommand == {"CreateConfig", "UpdateConfig", "DeleteConfig"}

VARIABLES
    state,          \* [Nodes -> NodeState]          RaftNode.state
    current_term,   \* [Nodes -> Nat]                RaftNode.current_term
    voted_for,      \* [Nodes -> Nodes \cup {None}]  RaftNode.voted_for
    epc,            \* [Nodes -> ...] position of the election-timer task
    hpc,            \* [Nodes -> ...] position of the heartbeat-timer task
    wr,             \* [Nodes -> SUBSET LockNames] write guards held by the election task
    rd,             \* [Nodes -> SUBSET LockNames] read guards held by the heartbeat task
    call,           \* the last client call and what it returned
    audit_log,      \* the lines of <log_dir>/audit.log
    logged,         \* the events handed to log_event so far, in order
    writer_held,    \* a log_event task sits in rotate_log_file holding the writer guard
    query,          \* the query_events call being returned to its caller
    dir,            \* the files of <log_dir>: file name -> modification time
    cleanup,        \* the cleanup_old_logs call made, with the directory it found
    sent,           \* vote requests handed to the peers so far
    elapsed         \* [Nodes -> BOOLEAN] a full election_timeout has passed since start()

auditVars == <<audit_log, logged, writer_held, query, dir, cleanup>>

vars == <<state, current_term, voted_for, epc, hpc, wr, rd, call, auditVars,
          sent, elapsed>>

nodeVars == <<state, current_term, voted_for>>
taskVars == <<epc, hpc, wr, rd>>

\* -------------------------------------------------------------- Audit::new
\* A fresh log directory holding an empty audit.log, the writer mutex free.
NoQuery == [op |-> "none"]

\* File names, as the pieces starts_with tells apart.
ActiveLog == <<"audit", ".log">>

\* Modification times are drawn from the same clock as event timestamps.
FreshDir == [name \in {ActiveLog} |-> 1]

NoCleanup == [op |-> "none"]

AuditInit ==
    /\ audit_log = <<>>
    /\ logged = <<>>
    /\ writer_held = FALSE
    /\ query = NoQuery
    /\ dir = FreshDir
    /\ cleanup = NoCleanup

\* ------------------------------------------------------------ RaftNode::new
\* Variant of new() that builds the node already one term into an election.
Init_TermOne ==
    /\ state = [n \in Nodes |-> "Follower"]
    /\ current_term = [n \in Nodes |-> 1]
    /\ voted_for = [n \in Nodes |-> None]
    /\ epc = [n \in Nodes |-> "off"]
    /\ hpc = [n \in Nodes |-> "off"]
    /\ wr = [n \in Nodes |-> {}]
    /\ rd = [n \in Nodes |-> {}]
    /\ call = [op |-> "none", node |-> 0, role |-> "Follower", result |-> "none"]
    /\ AuditInit
    /\ sent = {}
    /\ elapsed = [n \in Nodes |-> FALSE]

Init ==
    /\ state = [n \in Nodes |-> "Follower"]
    /\ current_term = [n \in Nodes |-> 0]
    /\ voted_for = [n \in Nodes |-> None]
    /\ epc = [n \in Nodes |-> "off"]
    /\ hpc = [n \in Nodes |-> "off"]
    /\ wr = [n \in Nodes |-> {}]
    /\ rd = [n \in Nodes |-> {}]
    /\ call = [op |-> "none", node |-> 0, role |-> "Follower", result |-> "none"]
    /\ AuditInit
    /\ sent = {}
    /\ elapsed = [n \in Nodes |-> FALSE]

\* -------------------------------------------------------------- RwLock
\* tokio RwLock: a writer needs the lock free, a reader needs no writer.
CanWrite(n, l) == l \notin wr[n] /\ l \notin rd[n]
CanRead(n, l) == l \notin wr[n]

\* ---------------------------------------------------------- RaftNode::start
\* start() spawns the election-timer task and then the heartbeat-timer task.
\* Each process calls it at most once here (src/src/main.rs never calls it).
Start(n) ==
    /\ epc[n] = "off"
    /\ epc' = [epc EXCEPT ![n] = "tick"]
    /\ hpc' = [hpc EXCEPT ![n] = "tick"]
    /\ UNCHANGED <<nodeVars, wr, rd, call, auditVars, sent, elapsed>>

\* ------------------------------------------- RaftNode::start_election_timer
\* Variants of the match in the election loop, each changed the way a slip
\* in that code would change it.
\* The Candidate arm declares itself elected without collecting any vote.
ElectionBody_SelfElect(st, t, v, id) ==
    IF st = "Follower"
    THEN [state |-> "Candidate", term |-> t + 1, voted |-> id]
    ELSE [state |-> "Leader", term |-> t, voted |-> v]

\* The Candidate arm gives up the election and undoes the term increment.
ElectionBody_Rollback(st, t, v, id) ==
    IF st = "Follower"
    THEN [state |-> "Candidate", term |-> t + 1, voted |-> id]
    ELSE [state |-> "Follower", term |-> t - 1, voted |-> v]

\* The Candidate arm hands its vote to the next peer without a new term.
ElectionBody_Revote(st, t, v, id) ==
    IF st = "Follower"
    THEN [state |-> "Candidate", term |-> t + 1, voted |-> id]
    ELSE [state |-> st, term |-> t, voted |-> (id % NumNodes) + 1]

\* The Follower arm takes the lead at once instead of standing as Candidate.
ElectionBody_Promote(st, t, v, id) ==
    IF st = "Follower"
    THEN [state |-> "Leader", term |-> t + 1, voted |-> id]
    ELSE [state |-> st, term |-> t, voted |-> v]

\* The Candidate arm restarts the election with a new term on every tick.
ElectionBody_Retry(st, t, v, id) ==
    IF st = "Follower"
    THEN [state |-> "Candidate", term |-> t + 1, voted |-> id]
    ELSE [state |-> st, term |-> t + 1, voted |-> id]

\* The match on *state_guard in the loop body.
ElectionBody(st, t, v, id) ==
    IF st = "Follower"
    THEN [state |-> "Candidate", term |-> t + 1, voted |-> id]
    ELSE [state |-> st, term |-> t, voted |-> v]

\* interval.tick().await completes.  A tokio interval yields its first tick
\* at once, so the tick is due as soon as the task is spawned (Start); every
\* later tick is due one period after the one before it (ElectionTimeout).
ElectionTick(n) ==
    /\ epc[n] = "tick"
    /\ epc' = [epc EXCEPT ![n] = "lock_state"]
    /\ UNCHANGED <<nodeVars, hpc, wr, rd, call, auditVars, sent, elapsed>>

\* Variant that takes the write guard of current_term first, where the code
\* takes the one of state.
ElectionLockState_TermFirst(n) ==
    /\ epc[n] = "lock_state"
    /\ CanWrite(n, "current_term")
    /\ wr' = [wr EXCEPT ![n] = @ \cup {"current_term"}]
    /\ epc' = [epc EXCEPT ![n] = "lock_term"]
    /\ UNCHANGED <<nodeVars, hpc, rd, call, auditVars, sent, elapsed>>

\* state.write().await
ElectionLockState(n) ==
    /\ epc[n] = "lock_state"
    /\ CanWrite(n, "state")
    /\ wr' = [wr EXCEPT ![n] = @ \cup {"state"}]
    /\ epc' = [epc EXCEPT ![n] = "lock_term"]
    /\ UNCHANGED <<nodeVars, hpc, rd, call, auditVars, sent, elapsed>>

\* current_term.write().await
ElectionLockTerm(n) ==
    /\ epc[n] = "lock_term"
    /\ CanWrite(n, "current_term")
    /\ wr' = [wr EXCEPT ![n] = @ \cup {"current_term"}]
    /\ epc' = [epc EXCEPT ![n] = "lock_voted"]
    /\ UNCHANGED <<nodeVars, hpc, rd, call, auditVars, sent, elapsed>>

\* voted_for.write().await, the match, and the drop of the three guards at
\* the end of the loop iteration
ElectionStep(n) ==
    /\ epc[n] = "lock_voted"
    /\ CanWrite(n, "voted_for")
    /\ LET r == ElectionBody(state[n], current_term[n], voted_for[n], node_id(n))
       IN /\ state' = [state EXCEPT ![n] = r.state]
          /\ current_term' = [current_term EXCEPT ![n] = r.term]
          /\ voted_for' = [voted_for EXCEPT ![n] = r.voted]
    /\ wr' = [wr EXCEPT ![n] = {}]
    /\ epc' = [epc EXCEPT ![n] = "sleep"]
    /\ UNCHANGED <<hpc, rd, call, auditVars, sent, elapsed>>

\* The interval's period runs out while the task waits in interval.tick():
\* election_timeout milliseconds after the previous tick the next one is due.
ElectionTimeout(n) ==
    /\ epc[n] = "sleep"
    /\ epc' = [epc EXCEPT ![n] = "tick"]
    /\ elapsed' = [elapsed EXCEPT ![n] = TRUE]
    /\ UNCHANGED <<nodeVars, hpc, wr, rd, call, auditVars, sent>>

\* ------------------------------------------ RaftNode::start_heartbeat_timer
\* interval.tick().await completes.  The heartbeat period is not tracked:
\* the tick is taken as due whenever the task waits for it.
HeartbeatTick(n) ==
    /\ hpc[n] = "tick"
    /\ hpc' = [hpc EXCEPT ![n] = "lock_state"]
    /\ UNCHANGED <<nodeVars, epc, wr, rd, call, auditVars, sent, elapsed>>

\* state.read().await
HeartbeatLockState(n) ==
    /\ hpc[n] = "lock_state"
    /\ CanRead(n, "state")
    /\ rd' = [rd EXCEPT ![n] = @ \cup {"state"}]
    /\ hpc' = [hpc EXCEPT ![n] = "lock_term"]
    /\ UNCHANGED <<nodeVars, epc, wr, call, auditVars, sent, elapsed>>

\* current_term.read().await, the (empty) leader branch, and the drop of
\* both guards at the end of the loop iteration
HeartbeatStep(n) ==
    /\ hpc[n] = "lock_term"
    /\ CanRead(n, "current_term")
    /\ rd' = [rd EXCEPT ![n] = {}]
    /\ hpc' = [hpc EXCEPT ![n] = "tick"]
    /\ UNCHANGED <<nodeVars, epc, wr, call, auditVars, sent, elapsed>>

\* ------------------------------------------------------------------ getters
get_state(n) ==
    /\ CanRead(n, "state")
    /\ call' = [op |-> "get_state", node |-> n, role |-> state[n], result |-> state[n]]
    /\ UNCHANGED <<nodeVars, taskVars, auditVars, sent, elapsed>>

get_term(n) ==
    /\ CanRead(n, "current_term")
    /\ call' = [op |-> "get_term", node |-> n, role |-> state[n], result |-> current_term[n]]
    /\ UNCHANGED <<nodeVars, taskVars, auditVars, sent, elapsed>>

get_voted_for(n) ==
    /\ CanRead(n, "voted_for")
    /\ call' = [op |-> "get_voted_for", node |-> n, role |-> state[n], result |-> voted_for[n]]
    /\ UNCHANGED <<nodeVars, taskVars, auditVars, sent, elapsed>>

\* --------------------------------------------------- config-raft: RaftNode
\* Scoping names and ids a client may pass.
Names == {"a", "b"}

\* serde_json::to_vec(&cmd): the derived Serialize of RaftCommand writes an
\* externally tagged object; it has no failing case for these field types.
to_vec(cmd) == [ok |-> TRUE, data |-> <<cmd.type, cmd.key>>]

\* config-raft RaftNode::new: todo!()
RaftNode_new == "Panic"

\* config-raft RaftNode::propose: todo!()
propose(data) == "Panic"

\* RaftConfigManager::new: RaftNode::new(config).await?
RaftConfigManager_new ==
    IF RaftNode_new = "Ok" THEN "Ok" ELSE RaftNode_new

\* RaftConfigManager::propose_command: both failures are mapped to
\* Error::Internal; a panic unwinds through the caller.
propose_command(cmd) ==
    LET enc == to_vec(cmd)
    IN IF ~enc.ok THEN "Internal"
       ELSE LET r == propose(enc.data)
            IN IF r \in {"Ok", "Panic"} THEN r ELSE "Internal"

\* The tail shared by create_config / update_config / delete_config:
\* self.propose_command(cmd).await?; todo!()
AfterPropose(r) == IF r = "Ok" THEN "Panic" ELSE r

\* RaftConfigManager::new on the process n
new_manager(n) ==
    /\ call' = [op |-> "new", node |-> n, role |-> state[n],
                result |-> RaftConfigManager_new]
    /\ UNCHANGED <<nodeVars, taskVars, auditVars, sent, elapsed>>

\* RaftConfigManager::create_config on the process n
create_config(n) ==
    \E name \in Names :
        LET cmd == [type |-> "CreateConfig", key |-> name]
        IN /\ call' = [op |-> "create_config", node |-> n, role |-> state[n],
                       result |-> AfterPropose(propose_command(cmd))]
           /\ UNCHANGED <<nodeVars, taskVars, auditVars, sent, elapsed>>

\* RaftConfigManager::update_config on the process n
update_config(n) ==
    \E id \in Names :
        LET cmd == [type |-> "UpdateConfig", key |-> id]
        IN /\ call' = [op |-> "update_config", node |-> n, role |-> state[n],
                       result |-> AfterPropose(propose_command(cmd))]
           /\ UNCHANGED <<nodeVars, taskVars, auditVars, sent, elapsed>>

\* RaftConfigManager::delete_config on the process n
delete_config(n) ==
    \E id \in Names :
        LET cmd == [type |-> "DeleteConfig", key |-> id]
        IN /\ call' = [op |-> "delete_config", node |-> n, role |-> state[n],
                       result |-> AfterPropose(propose_command(cmd))]
           /\ UNCHANGED <<nodeVars, taskVars, auditVars, sent, elapsed>>

\* config-raft RaftNode::get_config: todo!()
node_get_config(id) == "Panic"

\* RaftConfigManager::get_config: self.node.get_config(id).await
\*     .map_err(|e| Error::Internal(e.to_string()))
manager_get_config(id) ==
    LET r == node_get_config(id)
    IN IF r \in {"Ok", "Panic"} THEN r ELSE "Internal"

\* RaftConfigManager::get_config on the process n
get_config(n) ==
    \E id \in Names :
        /\ call' = [op |-> "get_config", node |-> n, role |-> state[n],
                    result |-> manager_get_config(id)]
        /\ UNCHANGED <<nodeVars, taskVars, auditVars, sent, elapsed>>

\* ------------------------------------------------------ config-api: GrpcApi
\* What the Arc<dyn ConfigManager> behind the transport can hand back: a
\* value, a panic, or an Err; of the Error variants the two domain errors
\* and Internal are drawn.
ManagerOutcome == {"Ok", "Panic", "NotFound", "AlreadyExists", "Internal"}

\* GrpcApi::get_config: config_manager.get_config(&id).await
\*     .map_err(|e| Status::internal(e.to_string()))?
\* The result is the tonic status code ("Ok" for a response).
GrpcApi_get_config(mr) ==
    IF mr \in {"Ok", "Panic"} THEN mr ELSE "Internal"

\* A GetConfig request served by GrpcApi over some ConfigManager.
grpc_get_config ==
    \E mr \in ManagerOutcome :
        /\ call' = [op |-> "grpc_get_config", node |-> 0, role |-> "none",
                    manager |-> mr, result |-> GrpcApi_get_config(mr)]
        /\ UNCHANGED <<nodeVars, taskVars, auditVars, sent, elapsed>>

\* The consensus layer: the two timer tasks of every process and the callers
\* of its getters.
Next ==
    \E n \in Nodes :
        \/ Start(n)
        \/ ElectionTick(n)
        \/ ElectionLockState(n)
        \/ ElectionLockTerm(n)
        \/ ElectionStep(n)
        \/ ElectionTimeout(n)
        \/ HeartbeatTick(n)
        \/ HeartbeatLockState(n)
        \/ HeartbeatStep(n)
        \/ get_state(n)
        \/ get_term(n)
        \/ get_voted_for(n)

Spec == Init /\ [][Next]_vars

\* One step of the election-timer task / of the heartbeat-timer task.
ElectionTask(n) ==
    \/ ElectionTick(n) \/ ElectionLockState(n) \/ ElectionLockTerm(n)
    \/ ElectionStep(n) \/ ElectionTimeout(n)

HeartbeatTask(n) ==
    HeartbeatTick(n) \/ HeartbeatLockState(n) \/ HeartbeatStep(n)

\* The tokio runtime keeps polling every spawned task: an interval that is
\* awaited fires, and the RwLock queues its waiters first-in first-out, so
\* a task that finds its lock free again and again gets it.
Fairness ==
    \A n \in Nodes :
        /\ WF_vars(Start(n))
        /\ SF_vars(ElectionTask(n))
        /\ SF_vars(HeartbeatTask(n))

FairSpec == Spec /\ Fairness

\* The two timer tasks of every process alone, scheduled fairly.  A getter
\* holds its read guard for the one read and gives it back in the same step,
\* so the callers of the getters never keep a timer task from a lock.
TaskNext == \E n \in Nodes : Start(n) \/ ElectionTask(n) \/ HeartbeatTask(n)

TaskSpec == Init /\ [][TaskNext]_vars /\ Fairness

\* The client API over the same processes: the calls of RaftConfigManager
\* and of GrpcApi, while the timer tasks run.
ApiNext ==
    \/ grpc_get_config
    \/ \E n \in Nodes :
        \/ get_config(n)
        \/ new_manager(n)
        \/ create_config(n)
        \/ update_config(n)
        \/ delete_config(n)
        \/ Start(n)
        \/ ElectionTask(n)
        \/ HeartbeatTask(n)

ApiSpec == Init /\ [][ApiNext]_vars

\* =================================================================== Audit
\* ------------------------------------------------------------------ bounds
\* Timestamps an event may carry (the caller supplies event.timestamp).
MaxTime == 2

\* config.max_size, counted in serialized lines: the file is "larger than
\* max_size" once it holds more than MaxSize lines.
MaxSize == 1

\* ----------------------------------------------------------------- inputs
Times == 1..MaxTime
Users == {"user1", "user2"}
Actions == {"create", "update"}
\* Events are logged about one resource; queries may ask for another.
Resources == {"config1"}
ResourceArgs == {"config1", "config2"}

\* struct AuditEvent (details and ip_address take no part in any filter)
AuditEvent ==
    [timestamp : Times, user_id : Users, action : Actions, resource : Resources]

\* Option<T>: None is the empty tuple, Some(v) the one-element tuple
Opt(S) == {<<>>} \cup {<<v>> : v \in S}
IsSome(o) == Len(o) = 1

\* The five optional arguments of query_events
Filters ==
    [user_id : Opt(Users), action : Opt(Actions), resource : Opt(ResourceArgs),
     start_time : Opt(Times), end_time : Opt(Times)]

\* serde_json::to_string(&event): one JSON object on one line
to_string(e) == <<"event", e.timestamp, e.user_id, e.action, e.resource>>

\* serde_json::from_str::<AuditEvent>(line)
from_str(line) ==
    [timestamp |-> line[2], user_id |-> line[3], action |-> line[4],
     resource |-> line[5]]

\* The chain of `if let Some(..) { if .. { continue; } }` in query_events:
\* TRUE when the event reaches events.push(event).
Pushed(event, f) ==
    /\ ~(IsSome(f.user_id) /\ event.user_id # f.user_id[1])
    /\ ~(IsSome(f.action) /\ event.action # f.action[1])
    /\ ~(IsSome(f.resource) /\ event.resource # f.resource[1])
    /\ ~(IsSome(f.start_time) /\ event.timestamp < f.start_time[1])
    /\ ~(IsSome(f.end_time) /\ event.timestamp > f.end_time[1])

\* Variant of the comparator that orders oldest first.
cmp_events_Ascending(a, b) ==
    IF a.timestamp < b.timestamp THEN -1
    ELSE IF a.timestamp = b.timestamp THEN 0 ELSE 1

\* The comparator |a, b| b.timestamp.cmp(&a.timestamp): Less (-1), Equal (0)
\* or Greater (1)
cmp_events(a, b) ==
    IF b.timestamp < a.timestamp THEN -1
    ELSE IF b.timestamp = a.timestamp THEN 0 ELSE 1

\* Vec::sort_by is a stable sort: an element goes in front of the first
\* element it compares Less than.
RECURSIVE InsertSorted(_, _)
InsertSorted(s, x) ==
    IF s = <<>> THEN <<x>>
    ELSE IF cmp_events(x, Head(s)) < 0 THEN <<x>> \o s
    ELSE <<Head(s)>> \o InsertSorted(Tail(s), x)

RECURSIVE sort_by(_)
sort_by(s) ==
    IF s = <<>> THEN <<>>
    ELSE InsertSorted(sort_by(SubSeq(s, 1, Len(s) - 1)), s[Len(s)])

\* The read loop of query_events over the lines of one file
RECURSIVE ReadEvents(_, _)
ReadEvents(lines, f) ==
    IF lines = <<>> THEN <<>>
    ELSE LET event == from_str(Head(lines))
             rest == ReadEvents(Tail(lines), f)
         IN IF Pushed(event, f) THEN <<event>> \o rest ELSE rest

\* Audit::query_events as a function of the directory content.  The only
\* file whose name starts with "audit" is audit.log: rotate_log_file never
\* gets past its first lock (see log_event), so no audit_*.log is created.
QueryEvents(lines, f) == sort_by(ReadEvents(lines, f))

\* ------------------------------------------------------- Audit::log_event
\* Takes the writer mutex, appends the line, flushes, and compares the file
\* length with max_size.  When the file is larger it calls rotate_log_file
\* with the guard still alive; rotate_log_file starts with
\* self.writer.lock().await on the same tokio Mutex, which is not re-entrant,
\* so the task stays there and the guard is never released.
\* Calls are taken one at a time: a pending query result is handed to its
\* caller (query_return) before the next call starts.
log_event(event) ==
    /\ ~writer_held
    /\ query = NoQuery
    /\ audit_log' = Append(audit_log, to_string(event))
    /\ logged' = Append(logged, event)
    /\ writer_held' = (Len(audit_log') > MaxSize)
    /\ UNCHANGED <<nodeVars, taskVars, call, sent, elapsed, query, dir, cleanup>>

\* ---------------------------------------------------- Audit::query_events
\* Reads the files directly; it does not take the writer mutex.
query_events(f) ==
    /\ query = NoQuery
    /\ query' = [op |-> "query_events", filter |-> f,
                 result |-> QueryEvents(audit_log, f)]
    /\ UNCHANGED <<nodeVars, taskVars, call, sent, elapsed,
                   audit_log, logged, writer_held, dir, cleanup>>

\* The caller takes the returned Vec<AuditEvent>.
query_return ==
    /\ query # NoQuery
    /\ query' = NoQuery
    /\ UNCHANGED <<nodeVars, taskVars, call, sent, elapsed,
                   audit_log, logged, writer_held, dir, cleanup>>

AuditNext ==
    \/ \E event \in AuditEvent : log_event(event)
    \/ \E f \in Filters : query_events(f)
    \/ query_return

AuditSpec == Init /\ [][AuditNext]_vars

\* ------------------------------------------------ Audit::cleanup_old_logs
\* config.max_files
MaxFiles == 1

\* How many rotated files may lie in the log directory.
NumRotated == 3

\* format!("audit_{}.log", timestamp): the k-th distinct timestamp
RotatedLog(k) == <<"audit", "_", k, ".log">>

\* str::starts_with on names cut into pieces
starts_with(name, prefix) ==
    /\ Len(name) >= Len(prefix)
    /\ SubSeq(name, 1, Len(prefix)) = prefix

\* Variant of the filter with the prefix query_events uses.
RotatedPrefix_Audit == <<"audit">>

\* The prefix "audit_" of the filter in the read_dir loop
RotatedPrefix == <<"audit", "_">>

\* The log directories cleanup_old_logs may find: audit.log, and any of the
\* rotated files, each with a modification time.
Directories ==
    UNION {[S \cup {ActiveLog} -> Times] :
              S \in SUBSET {RotatedLog(k) : k \in 1..NumRotated}}

\* read_dir yields the entries in an order of its own.
Orders(S) ==
    {o \in [1..Cardinality(S) -> S] :
        \A i, j \in 1..Cardinality(S) : i # j => o[i] # o[j]}

\* The comparator |a, b| b.1.modified().cmp(&a.1.modified()) on
\* (path, modification time) pairs
cmp_modified(a, b) ==
    IF b[2] < a[2] THEN -1
    ELSE IF b[2] = a[2] THEN 0 ELSE 1

\* file_metadata.sort_by(..): the same stable sort as in query_events
RECURSIVE InsertByModified(_, _)
InsertByModified(s, x) ==
    IF s = <<>> THEN <<x>>
    ELSE IF cmp_modified(x, Head(s)) < 0 THEN <<x>> \o s
    ELSE <<Head(s)>> \o InsertByModified(Tail(s), x)

RECURSIVE sort_by_modified(_)
sort_by_modified(s) ==
    IF s = <<>> THEN <<>>
    ELSE InsertByModified(sort_by_modified(SubSeq(s, 1, Len(s) - 1)), s[Len(s)])

\* The files cleanup_old_logs removes from the directory d when read_dir
\* lists the matching entries in the order o: .skip(max_files) of the
\* sorted list.
RemovedFiles(d, o) ==
    LET file_metadata ==
            sort_by_modified([i \in 1..Len(o) |-> <<o[i], d[o[i]]>>])
    IN {file_metadata[i][1] : i \in (MaxFiles + 1)..Len(file_metadata)}

\* cleanup_old_logs with every file operation succeeding.  rotate_log_file
\* is its only caller and never gets as far as the call (see log_event), so
\* it is run here on its own, on a directory handed to it.
cleanup_old_logs ==
    /\ cleanup = NoCleanup
    /\ LET log_files == {name \in DOMAIN dir : starts_with(name, RotatedPrefix)}
       IN \E o \in Orders(log_files) :
            dir' = [name \in DOMAIN dir \ RemovedFiles(dir, o) |-> dir[name]]
    /\ cleanup' = [op |-> "cleanup_old_logs", found |-> dir]
    /\ UNCHANGED <<nodeVars, taskVars, call, sent, elapsed,
                   audit_log, logged, writer_held, query>>

CleanupInit ==
    /\ state = [n \in Nodes |-> "Follower"]
    /\ current_term = [n \in Nodes |-> 0]
    /\ voted_for = [n \in Nodes |-> None]
    /\ epc = [n \in Nodes |-> "off"]
    /\ hpc = [n \in Nodes |-> "off"]
    /\ wr = [n \in Nodes |-> {}]
    /\ rd = [n \in Nodes |-> {}]
    /\ call = [op |-> "none", node |-> 0, role |-> "Follower", result |-> "none"]
    /\ sent = {}
    /\ elapsed = [n \in Nodes |-> FALSE]
    /\ audit_log = <<>>
    /\ logged = <<>>
    /\ writer_held = FALSE
    /\ query = NoQuery
    /\ dir \in Directories
    /\ cleanup = NoCleanup

CleanupNext == cleanup_old_logs

CleanupSpec == CleanupInit /\ [][CleanupNext]_vars

TypeOK ==
    /\ state \in [Nodes -> NodeState]
    /\ current_term \in [Nodes -> Nat]
    /\ voted_for \in [Nodes -> Nodes \cup {None}]
    /\ wr \in [Nodes -> SUBSET LockNames]
    /\ rd \in [Nodes -> SUBSET LockNames]
    /\ elapsed \in [Nodes -> BOOLEAN]
    /\ sent = {}

\* ==================================================================== claims

TermNeverDecreases ==
    [][\A n \in Nodes : current_term'[n] >= current_term[n]]_vars

\* A node whose election step has raised its term, and whose election task
\* is about to run the step again on the raised term.
TermRaisedAndTickedAgain ==
    \E n \in Nodes :
        /\ current_term[n] = 1
        /\ state[n] = "Candidate"
        /\ epc[n] = "lock_voted"

\* C3 -- A node never votes twice in the same term: voted_for changes only
\* in a step that also raises the node's term.
VoteChangesOnlyWithTerm ==
    [][\A n \in Nodes :
          voted_for'[n] # voted_for[n] => current_term'[n] > current_term[n]]_vars

\* A caller has read back the vote a node cast for itself in term 1, and the
\* election task of that node holds the state lock for a further step.
VoteCastAndObserved ==
    /\ call.op = "get_voted_for"
    /\ call.node \in Nodes
    /\ call.result = node_id(call.node)
    /\ voted_for[call.node] = node_id(call.node)
    /\ current_term[call.node] = 1
    /\ "state" \in wr[call.node]

\* C10 -- create_config, update_config or delete_config invoked on a node
\* that is not the Leader fails with a NotLeader error (and leaves every log
\* unchanged; the code keeps no log).
NonLeaderGetsNotLeader ==
    (call.op \in {"create_config", "update_config", "delete_config"}
        /\ call.role # "Leader") => call.result = "NotLeader"

\* C11 -- Every create_config, update_config or delete_config call resolves
\* to the state machine's result or to an explicit failure or timeout; it
\* never aborts by panic and is never dropped.
ProposalResolvesExplicitly ==
    call.op \in {"create_config", "update_config", "delete_config"}
        => call.result \in ({"Ok", "Timeout"} \cup Error)

\* C12 -- On a cluster of one node (the code never reads config.peers, so
\* every process behaves as one): a CreateConfig proposed to a node that has
\* stood for election and holds the only vote it needs is served by a Leader
\* and commits (Ok), or fails with AlreadyExists when repeated.
SingleNodeCreateCommits ==
    (call.op = "create_config" /\ call.node \in Nodes
        /\ voted_for[call.node] = node_id(call.node))
        => (state[call.node] = "Leader"
            /\ call.result \in {"Ok", "AlreadyExists"})

\* C15 -- UpdateConfig for an id that is absent yields NotFound.  No entity
\* is ever created by the code, so every id passed is absent.
UpdateAbsentIsNotFound ==
    call.op = "update_config" => call.result = "NotFound"

\* C16 -- Partition scenario: the side holding a majority elects a new
\* leader at a term above the old leader's.  Nodes of this code never
\* exchange a message, so every behaviour already is one in which each node
\* is cut off from the others; with every node started and every timer task
\* scheduled, some node is eventually Leader at a term of 2 or more.
MajorityElectsNewLeader ==
    <>(\E n \in Nodes : state[n] = "Leader" /\ current_term[n] >= 2)

\* C17 -- A domain error (NotFound, AlreadyExists) handed back by the config
\* manager reaches the caller of the transport as that same typed error, not
\* as a generic internal error.
TypedErrorReachesCaller ==
    (call.op = "grpc_get_config"
        /\ call.manager \in {"NotFound", "AlreadyExists"})
        => call.result = call.manager

\* C19 -- A node returned by RaftNode::new is Follower with current term 0
\* and no vote, and stays exactly so until start() is called on it.
FreshUntilStart ==
    \A n \in Nodes :
        epc[n] = "off" =>
            /\ state[n] = "Follower"
            /\ current_term[n] = 0
            /\ voted_for[n] = None

\* get_state on a node that was never started has answered Follower (the
\* assertion of test_raft_state_transition) while another node, started,
\* has already left that state.
FreshNodeObserved ==
    /\ call.op = "get_state"
    /\ call.node \in Nodes
    /\ epc[call.node] = "off"
    /\ call.result = "Follower"
    /\ \E m \in Nodes : state[m] = "Candidate" /\ current_term[m] = 1

\* What the filters of a query ask of an event.
Satisfies(e, f) ==
    /\ IsSome(f.user_id) => e.user_id = f.user_id[1]
    /\ IsSome(f.action) => e.action = f.action[1]
    /\ IsSome(f.resource) => e.resource = f.resource[1]
    /\ IsSome(f.start_time) => e.timestamp >= f.start_time[1]
    /\ IsSome(f.end_time) => e.timestamp <= f.end_time[1]

\* How many times the event e occurs in the sequence s.
Occurrences(s, e) == Cardinality({i \in DOMAIN s : s[i] = e})

\* C20 -- Audit::query_events returns exactly the logged events that satisfy
\* every supplied filter (user_id, action, resource equal to the given value;
\* timestamp not before start_time and not after end_time; an absent filter
\* matches every event), ordered by timestamp from newest to oldest.
QueryReturnsMatchingNewestFirst ==
    query # NoQuery =>
        /\ \A e \in AuditEvent :
              Occurrences(query.result, e) =
                  IF Satisfies(e, query.filter) THEN Occurrences(logged, e) ELSE 0
        /\ \A i, j \in DOMAIN query.result :
              i < j => query.result[i].timestamp >= query.result[j].timestamp

\* Two events were logged oldest first; a query with a user filter and a
\* time window that both satisfy, and an action filter left absent, has
\* returned both, newest first.
QueryReorderedTwoEvents ==
    /\ query # NoQuery
    /\ Len(logged) = 2
    /\ logged[1].timestamp < logged[2].timestamp
    /\ IsSome(query.filter.user_id)
    /\ IsSome(query.filter.start_time)
    /\ ~IsSome(query.filter.action)
    /\ query.result = <<logged[2], logged[1]>>

\* C22 -- Starting an election is one atomic step: the step that turns a
\* Follower into a Candidate also raises its term by exactly 1, sets its vote
\* to its own id, and hands every peer a vote request for the new term that
\* carries the last log index and term (0 and 0: the code keeps no log).
ElectionStartIsAtomicAndAsksPeers ==
    [][\A n \in Nodes :
        (state[n] = "Follower" /\ state'[n] = "Candidate") =>
            /\ current_term'[n] = current_term[n] + 1
            /\ voted_for'[n] = node_id(n)
            /\ \A p \in Peers(n) :
                [from |-> n, to |-> p, term |-> current_term'[n],
                 last_log_index |-> 0, last_log_term |-> 0] \in sent']_vars

\* C23 -- A Follower turns Candidate only after a full election timeout has
\* passed (without a heartbeat): a node that is Candidate has waited one
\* whole election_timeout since start().
CandidateOnlyAfterFullTimeout ==
    \A n \in Nodes : state[n] = "Candidate" => elapsed[n]

\* The votes cast for n in n's current term.
VotesFor(n) ==
    Cardinality({m \in Nodes : voted_for[m] = node_id(n)
                               /\ current_term[m] = current_term[n]})

RoleAndTermReadTogether ==
    [][(call.op = "get_state" /\ call'.op = "get_term"
            /\ call'.node = call.node)
        => <<call.result, call'.result>>
             = <<state'[call.node], current_term'[call.node]>>]_vars

\* C26 -- Elections do not livelock: whenever no node is Leader, some node
\* eventually becomes Leader.
NoLeaderDoesNotPersist ==
    (\A n \in Nodes : state[n] # "Leader")
        ~> (\E n \in Nodes : state[n] = "Leader")

\* C27 -- Role, term and vote of a node change in no step but an election
\* tick taken as Follower: heartbeat ticks, getter calls and the election
\* ticks of a Candidate or a Leader leave all three as they were.
OnlyFollowerElectionTickChangesNode ==
    [][\A n \in Nodes :
        <<state'[n], current_term'[n], voted_for'[n]>>
            # <<state[n], current_term[n], voted_for[n]>>
        => /\ state[n] = "Follower"
           /\ epc[n] = "lock_voted"
           /\ epc'[n] = "sleep"]_vars

\* A Candidate has been through a second election tick, its heartbeat task
\* holds the read guard of state, and get_voted_for still answers the vote
\* of its first and only election.
CandidateUnchangedByLaterSteps ==
    \E n \in Nodes :
        /\ state[n] = "Candidate"
        /\ current_term[n] = 1
        /\ elapsed[n]
        /\ epc[n] = "sleep"
        /\ hpc[n] = "lock_term"
        /\ call = [op |-> "get_voted_for", node |-> n, role |-> "Candidate",
                   result |-> node_id(n)]

\* C28 -- Every Audit::log_event call returns: no call is left inside
\* rotate_log_file waiting for the writer mutex whose guard it holds itself,
\* so the mutex is free again for the calls that follow.
LogEventReturns == ~writer_held

\* C29 -- The election task, the heartbeat task and the getter callers never
\* deadlock on the three locks: no task stays waiting for a lock for ever
\* (each is again and again past the locks of its loop iteration), and
\* every lock is free for a getter again and again.
LocksEventuallyAcquired ==
    \A n \in Nodes :
        /\ []<>(epc[n] \notin {"lock_state", "lock_term", "lock_voted"})
        /\ []<>(hpc[n] \notin {"lock_state", "lock_term"})
        /\ \A l \in LockNames : []<>CanRead(n, l)

\* Both tasks of a node contend: the election task holds the write guards
\* of state and current_term and the heartbeat task waits for state.
TimerTasksContend ==
    \E n \in Nodes :
        /\ epc[n] = "lock_voted"
        /\ wr[n] = {"state", "current_term"}
        /\ hpc[n] = "lock_state"

\* The files of the directory d whose names start with "audit_".
RotatedIn(d) == {name \in DOMAIN d : starts_with(name, <<"audit", "_">>)}

\* C30 -- After cleanup_old_logs (the last step of a rotation) at most
\* max_files files with a name starting with "audit_" remain, every file
\* kept is at least as recently modified as every file removed, only such
\* files are removed, and audit.log is still there.
CleanupKeepsNewestMaxFiles ==
    cleanup.op = "cleanup_old_logs" =>
        LET removed == DOMAIN cleanup.found \ DOMAIN dir
        IN /\ Cardinality(RotatedIn(dir)) <= MaxFiles
           /\ removed \subseteq RotatedIn(cleanup.found)
           /\ \A k \in RotatedIn(dir) : \A g \in removed :
                  cleanup.found[k] >= cleanup.found[g]
           /\ \A name \in DOMAIN dir :
                  name \in DOMAIN cleanup.found /\ dir[name] = cleanup.found[name]
           /\ ActiveLog \in DOMAIN dir

\* cleanup_old_logs found more than max_files rotated files and removed one
\* that was modified after audit.log.
CleanupRemovedFileNewerThanActiveLog ==
    /\ cleanup.op = "cleanup_old_logs"
    /\ Cardinality(RotatedIn(cleanup.found)) > MaxFiles
    /\ \E g \in DOMAIN cleanup.found \ DOMAIN dir :
           cleanup.found[g] > cleanup.found[ActiveLog]

====
